---- MODULE Spec2Model ----
(***************************************************************************)
(* The snapshot-diff detection engine of derstandard_mod_detector.py:      *)
(* main()'s poll loop, the posting-tree flattener, discovery, staleness     *)
(* cleanup, the SQLite sink and the dashboard thread reading _shared.       *)
(*                                                                          *)
(* Python values are modelled by value.  A dict that the code iterates      *)
(* (forums) is a sequence of entries in insertion order; the other dicts    *)
(* are functions.  None is the string "None"; a key that a dict lacks and   *)
(* that the code reads with .get(key, "") is the empty string.  Time is an  *)
(* integer; one unit is one poll interval.                                  *)
(***************************************************************************)
EXTENDS Integers, Sequences, FiniteSets, TLC

VARIABLES
    args,           \* parsed command line: urls, discover
    pc,             \* position of main(): resolve, discover, loop, fetch,
                    \*   publish, cleanup, sleep; done after conn.close() or
                    \*   sys.exit; crashed, interrupted after an exception
                    \*   that left main()
                    \*   (flatten, flattened: before and after one call of
                    \*   fetch_all_postings taken by itself)
    forums,         \* forums: forum_id -> {url, title, last_activity}
    snapshots,      \* snapshots: forum_id -> {posting_id -> posting}
    posting_cache,  \* posting_cache: posting_id -> posting
    cycle,          \* cycle counter of the poll loop
    todo,           \* what is left of list(forums) in the per-forum loop
    iter,           \* locals of the latest per-forum iteration, and whether
                    \*   the fetch of the forum before this one had raised
    attempts,       \* the fetches of the cycle as the log tells them: for
                    \*   each forum tried, whether its fetch returned
    discoveries,    \* the discovery runs as the log tells them: the cycle
                    \*   of each "Running ... RSS discovery" line, 0 for the
                    \*   initial one
    failing,        \* the monitored forums whose latest fetch raised: those
                    \*   whose latest line in the log is "Error fetching"
    shared,         \* _shared (forums, snapshots) and which cycle set each
    db,             \* rows of table moderated_postings
    now,            \* the clock
    rd              \* the dashboard request in progress, if any

vars == <<args, pc, forums, snapshots, posting_cache, cycle, todo, iter,
          attempts, discoveries, failing, shared, db, now, rd>>

----------------------------------------------------------------------------
(* Bounds and configuration *)

\* The clock stops the model at MaxTime.
MaxTime == 4

\* --min-posts (the default)
min_posts == 50
\* the value given for --max-inactive (default 60 minutes), in clock ticks;
\* one tick of the clock is one poll interval
max_inactive == 1
\* the value given for --discover-interval (default 5)
discover_interval == 2

\* None where a forum id is expected
None == "None"
\* None where a datetime is expected (last_activity, newest)
NoneTs == -1
\* the timestamp "?" of a placeholder posting, which fromisoformat rejects
UnparsedTs == -2

----------------------------------------------------------------------------
(* Python dict helpers *)

\* d.update(e), both functions
DictUpdate(d, e) ==
    [k \in DOMAIN d \cup DOMAIN e |-> IF k \in DOMAIN e THEN e[k] ELSE d[k]]

EmptyDict == <<>>

\* list(forums)
ForumKeys(fs) == [i \in 1..Len(fs) |-> fs[i].forum_id]

\* set(forums)
ForumSet(fs) == {fs[i].forum_id : i \in 1..Len(fs)}

\* forums[forum_id]
ForumGet(fs, forum_id) ==
    fs[CHOOSE i \in 1..Len(fs) : fs[i].forum_id = forum_id]

\* forums[forum_id] = info: an existing key keeps its position
ForumPut(fs, e) ==
    IF e.forum_id \in ForumSet(fs)
    THEN [i \in 1..Len(fs) |-> IF fs[i].forum_id = e.forum_id THEN e ELSE fs[i]]
    ELSE Append(fs, e)

RECURSIVE ForumUpdate(_, _)
\* forums.update(new)
ForumUpdate(fs, new) ==
    IF new = <<>> THEN fs
    ELSE ForumUpdate(ForumPut(fs, Head(new)), Tail(new))

----------------------------------------------------------------------------
(* The remote source: what the GraphQL API and the RSS feed may answer *)

ForumIds == {"f1", "f2"}
Urls == {"u1", "u2", "u3"}

\* The forum an article belongs to: u1 and u3 are two articles of forum f1.
ForumOf(url) == IF url = "u2" THEN "f2" ELSE "f1"

\* Posting ids are unique within a forum only: p1 exists in both forums,
\* p2 in f1.
AuthorOf(f, pid) ==
    IF f = "f2" THEN "bob" ELSE IF pid = "p1" THEN "alice" ELSE "carol"
TitleOf(f, pid) ==
    IF f = "f2" THEN "f2 p1 title"
    ELSE IF pid = "p1" THEN "f1 p1 title" ELSE "f1 p2 title"
TextOf(f, pid) ==
    IF f = "f2" THEN "f2 p1 text"
    ELSE IF pid = "p1" THEN "f1 p1 text" ELSE "f1 p2 text"
\* history.created of a posting: f2's p1 at time 0, f1's p1 at time 1 and its
\* reply p2 at time 2
CreatedOf(f, pid) == IF f = "f2" THEN 0 ELSE IF pid = "p1" THEN 1 ELSE 2
RootOf(pid) == IF pid = "p2" THEN "p1" ELSE ""

\* A posting node of the API
Node(f, pid, status, replies) ==
    [id |-> pid,
     author |-> [name |-> AuthorOf(f, pid)],
     title |-> TitleOf(f, pid),
     text |-> TextOf(f, pid),
     history |-> [created |-> CreatedOf(f, pid)],
     rootPostingId |-> RootOf(pid),
     lifecycleStatus |-> status,
     reactions |-> [aggregated |-> <<[name |-> "positive", value |-> 1]>>],
     replies |-> replies]

\* A node without its author: collect_postings_from_node raises KeyError
BadNode(f, pid) ==
    [id |-> pid,
     title |-> TitleOf(f, pid),
     text |-> TextOf(f, pid),
     history |-> [created |-> CreatedOf(f, pid)],
     rootPostingId |-> RootOf(pid),
     lifecycleStatus |-> "Published",
     reactions |-> [aggregated |-> <<>>],
     replies |-> <<>>]

\* A node without its id
NodeWithoutId(f, pid) ==
    [author |-> [name |-> AuthorOf(f, pid)],
     title |-> TitleOf(f, pid),
     text |-> TextOf(f, pid),
     history |-> [created |-> CreatedOf(f, pid)],
     rootPostingId |-> RootOf(pid),
     lifecycleStatus |-> "Published",
     reactions |-> [aggregated |-> <<>>],
     replies |-> <<>>]

\* A node whose history has no created
NodeWithoutCreated(f, pid) ==
    [id |-> pid,
     author |-> [name |-> AuthorOf(f, pid)],
     title |-> TitleOf(f, pid),
     text |-> TextOf(f, pid),
     history |-> [edited |-> CreatedOf(f, pid)],
     rootPostingId |-> RootOf(pid),
     lifecycleStatus |-> "Published",
     reactions |-> [aggregated |-> <<>>],
     replies |-> <<>>]

\* The lifecycle statuses the source reports for a posting: in f1 the
\* reply p2 may be deleted by its author, in f2 the posting p1
StatusesOf(f, pid) ==
    IF (f = "f1" /\ pid = "p2") \/ (f = "f2" /\ pid = "p1")
    THEN {"Published", "Deleted"}
    ELSE {"Published"}

\* The top-level edges forum f may show at time t: postings exist from their
\* creation time on; p2 is nested under p1, or listed alone once p1 is gone.
EdgesOf(f, t) ==
    {<<>>}
    \cup {<<Node(f, "p1", s, <<>>)>> : s \in StatusesOf(f, "p1")}
    \cup (IF f = "f1" /\ t >= CreatedOf(f, "p2")
          THEN {<<Node(f, "p1", s, <<Node(f, "p2", r, <<>>)>>)>> :
                    s \in StatusesOf(f, "p1"), r \in StatusesOf(f, "p2")}
               \cup {<<Node(f, "p2", r, <<>>)>> : r \in StatusesOf(f, "p2")}
          ELSE {})

Page(edges, more) == [error |-> FALSE, edges |-> edges, hasNextPage |-> more]
\* api_call raises (network error, bad JSON, missing "data")
ApiError == [error |-> TRUE, edges |-> <<>>, hasNextPage |-> FALSE]

\* The answers to the ThreadsByForumQuery calls of one fetch, page by page:
\* one page, two pages, a first call that fails, a second call that fails,
\* a malformed node after a good one, on a second page, below a good node,
\* alone.
Responses(f, t) ==
    {<<Page(e, FALSE)>> : e \in EdgesOf(f, t)}
    \cup {<<Page(<<Node(f, "p1", "Published", <<>>)>>, TRUE), Page(<<>>, FALSE)>>}
    \cup {<<ApiError>>}
    \cup {<<Page(<<Node(f, "p1", "Published", <<>>)>>, TRUE), ApiError>>}
    \cup {<<Page(<<Node(f, "p1", "Published", <<>>), BadNode(f, "p1")>>, FALSE)>>}
    \cup {<<Page(<<Node(f, "p1", "Published", <<>>)>>, TRUE),
             Page(<<NodeWithoutCreated(f, "p2")>>, FALSE)>>}
    \cup {<<Page(<<Node(f, "p1", "Published", <<BadNode(f, "p2")>>)>>, FALSE)>>}
    \cup {<<Page(<<NodeWithoutId(f, "p1")>>, FALSE)>>}

----------------------------------------------------------------------------
(* Flattening and fetching *)

\* what a call yields: an exception, or a value
Raise == [ok |-> FALSE, postings |-> <<>>]
Return(postings) == [ok |-> TRUE, postings |-> postings]

\* the reactions loop of collect_postings_from_node
RECURSIVE Votes(_, _, _)
Votes(aggregated, name, acc) ==
    IF aggregated = <<>> THEN acc
    ELSE Votes(Tail(aggregated), name,
               IF Head(aggregated).name = name THEN Head(aggregated).value ELSE acc)

\* node["id"], node["author"]["name"], node["history"]["created"] exist
RECURSIVE NodeOk(_)
NodeOk(node) ==
    /\ {"id", "author", "history"} \subseteq DOMAIN node
    /\ "name" \in DOMAIN node.author
    /\ "created" \in DOMAIN node.history
    /\ \A i \in 1..Len(node.replies) : NodeOk(node.replies[i])

RECURSIVE collect_postings_from_node(_, _)
RECURSIVE CollectReplies(_, _, _)

\* a flattening that stops at the node: the replies are not visited
CollectRepliesShallow(postings, replies, parent_id) == postings

\* for reply in node.get("replies", []): postings.update(collect(reply, id))
CollectReplies(postings, replies, parent_id) ==
    IF replies = <<>> THEN postings
    ELSE CollectReplies(
            DictUpdate(postings, collect_postings_from_node(Head(replies), parent_id)),
            Tail(replies), parent_id)

collect_postings_from_node(node, parent_id) ==
    LET aggregated == node.reactions.aggregated
        posting ==
            [id |-> node.id,
             author |-> node.author.name,
             title |-> node.title,
             text |-> node.text,
             created_at |-> node.history.created,
             root_posting_id |-> node.rootPostingId,
             parent_posting_id |-> parent_id,
             upvotes |-> Votes(aggregated, "positive", 0),
             downvotes |-> Votes(aggregated, "negative", 0),
             self_deleted |-> (node.lifecycleStatus = "Deleted"),
             parent_author |-> "",
             parent_title |-> "",
             parent_text |-> ""]
    IN  CollectReplies((node.id :> posting), node.replies, node.id)

RECURSIVE CollectEdges(_, _)
\* for edge in data["edges"]: all_postings.update(collect(edge["node"]))
CollectEdges(all_postings, edges) ==
    IF edges = <<>> THEN all_postings
    ELSE CollectEdges(
            DictUpdate(all_postings, collect_postings_from_node(Head(edges), "")),
            Tail(edges))

RECURSIVE FetchPagesPartial(_, _, _)
\* a fetch that returns what it has read when a page fails
FetchPagesPartial(resp, i, all_postings) ==
    IF resp[i].error THEN Return(all_postings)
    ELSE IF \E j \in 1..Len(resp[i].edges) : ~NodeOk(resp[i].edges[j])
         THEN Return(all_postings)
    ELSE LET got == CollectEdges(all_postings, resp[i].edges)
         IN  IF ~resp[i].hasNextPage THEN Return(got)
             ELSE FetchPagesPartial(resp, i + 1, got)

RECURSIVE FetchPages(_, _, _)
\* the while loop of fetch_all_postings, from page i on
FetchPages(resp, i, all_postings) ==
    IF resp[i].error THEN Raise
    ELSE IF \E j \in 1..Len(resp[i].edges) : ~NodeOk(resp[i].edges[j]) THEN Raise
    ELSE LET got == CollectEdges(all_postings, resp[i].edges)
         IN  IF ~resp[i].hasNextPage THEN Return(got)
             ELSE FetchPages(resp, i + 1, got)

\* a fetch that swallows the exception and returns no postings
fetch_swallowing_errors(resp) ==
    IF FetchPages(resp, 1, EmptyDict).ok
    THEN FetchPages(resp, 1, EmptyDict)
    ELSE Return(EmptyDict)

fetch_all_postings(resp) == FetchPages(resp, 1, EmptyDict)

\* datetime.fromisoformat accepts the timestamp
ParsesOk(ts) == ts >= 0

\* newest created_at of a dict of postings, or None
newest_posting_time(postings) ==
    LET times == {postings[k].created_at : k \in DOMAIN postings}
        parsed == {t \in times : ParsesOk(t)}
    IN  IF parsed = {} THEN NoneTs
        ELSE CHOOSE t \in parsed : \A u \in parsed : u <= t

----------------------------------------------------------------------------
(* Resolution and discovery *)

\* What get_forum_info(url) may do: raise, find no forum, or return the
\* forum with a posting count below or at the minimum.
InfoOutcomes(url) ==
    {[error |-> TRUE, forum_id |-> None, count |-> 0],
     [error |-> FALSE, forum_id |-> None, count |-> 0],
     [error |-> FALSE, forum_id |-> ForumOf(url), count |-> min_posts - 1],
     [error |-> FALSE, forum_id |-> ForumOf(url), count |-> min_posts]}

\* one get_forum_info answer per article url
InfoAnswers == {a \in [Urls -> UNION {InfoOutcomes(u) : u \in Urls}] :
                    \A u \in Urls : a[u] \in InfoOutcomes(u)}

Item(url) == [url |-> url, title |-> IF url = "u2" THEN "rss u2" ELSE "rss u1u3"]

\* What fetch_rss_article_urls may return (ok) or that it raises
RssAnswers ==
    {[ok |-> FALSE, items |-> <<>>]}
    \cup {[ok |-> TRUE, items |-> it] :
            it \in {<<>>, <<Item("u2")>>, <<Item("u1"), Item("u2")>>,
                    <<Item("u3"), Item("u2")>>}}

Entry(forum_id, url, title, last_activity) ==
    [forum_id |-> forum_id, url |-> url, title |-> title,
     last_activity |-> last_activity]

RECURSIVE DiscoverLoop(_, _, _, _, _)
\* the for loop of discover_articles over rss_items
DiscoverLoop(fs, minp, items, info, new_entries) ==
    IF items = <<>> THEN new_entries
    ELSE LET url == Head(items).url
             r == info[url]
             known_urls == {fs[i].url : i \in 1..Len(fs)}
             skip == \/ url \in known_urls
                     \/ r.error
                     \/ r.forum_id = None
                     \/ r.forum_id \in ForumSet(fs)
                     \/ r.count < minp
         IN  DiscoverLoop(fs, minp, Tail(items), info,
                IF skip THEN new_entries
                ELSE ForumPut(new_entries,
                        Entry(r.forum_id, url, Head(items).title, NoneTs)))

\* a discovery that skips the count < min_posts test
discover_without_minimum(fs, minp, rss, info) ==
    IF ~rss.ok THEN <<>>
    ELSE DiscoverLoop(fs, 0, rss.items, info, <<>>)

\* discover_articles(forums, min_posts), given what the feed and
\* get_forum_info answer
discover_articles(fs, minp, rss, info) ==
    IF ~rss.ok THEN <<>>
    ELSE DiscoverLoop(fs, minp, rss.items, info, <<>>)

RECURSIVE ResolveLoop(_, _, _)
\* the for loop of main over args.urls
ResolveLoop(fs, urls, info) ==
    IF urls = <<>> THEN fs
    ELSE LET r == info[Head(urls)]
         IN  ResolveLoop(
                IF r.error \/ r.forum_id = None THEN fs
                ELSE ForumPut(fs, Entry(r.forum_id, Head(urls), "", NoneTs)),
                Tail(urls), info)

----------------------------------------------------------------------------
(* The durable sink *)

\* a row whose thread is always the posting itself
RowOwnThread(forum_id, article_url, article_title, posting, t) ==
    LET root == posting.root_posting_id
    IN  [forum_id |-> forum_id,
         article_url |-> article_url,
         posting_id |-> posting.id,
         author |-> posting.author,
         title |-> posting.title,
         text |-> posting.text,
         created_at |-> posting.created_at,
         moderated_at |-> t,
         is_reply |-> IF root # "" THEN 1 ELSE 0,
         upvotes |-> posting.upvotes,
         downvotes |-> posting.downvotes,
         thread_id |-> posting.id,
         article_title |-> article_title,
         parent_posting_id |-> posting.parent_posting_id,
         parent_author |-> posting.parent_author,
         parent_title |-> posting.parent_title,
         parent_text |-> posting.parent_text]

\* the row save_moderated inserts at time t
Row(forum_id, article_url, article_title, posting, t) ==
    LET root == posting.root_posting_id
    IN  [forum_id |-> forum_id,
         article_url |-> article_url,
         posting_id |-> posting.id,
         author |-> posting.author,
         title |-> posting.title,
         text |-> posting.text,
         created_at |-> posting.created_at,
         moderated_at |-> t,
         is_reply |-> IF root # "" THEN 1 ELSE 0,
         upvotes |-> posting.upvotes,
         downvotes |-> posting.downvotes,
         thread_id |-> IF root # "" THEN root ELSE posting.id,
         article_title |-> article_title,
         parent_posting_id |-> posting.parent_posting_id,
         parent_author |-> posting.parent_author,
         parent_title |-> posting.parent_title,
         parent_text |-> posting.parent_text]

\* INSERT with no UNIQUE constraint to stop it
InsertPlain(rows, row) == rows \cup {row}

\* INSERT OR REPLACE: the row of the key gives way to the new one
InsertOrReplace(rows, row) ==
    {r \in rows : r.forum_id # row.forum_id \/ r.posting_id # row.posting_id}
    \cup {row}

\* INSERT OR IGNORE under UNIQUE(forum_id, posting_id)
InsertOrIgnore(rows, row) ==
    IF \E r \in rows : r.forum_id = row.forum_id /\ r.posting_id = row.posting_id
    THEN rows
    ELSE rows \cup {row}

\* save_moderated: the table afterwards and the value returned.  INSERT OR
\* IGNORE raises no IntegrityError on a duplicate key, so the except branch
\* is never taken and the function returns True.
save_moderated(rows, forum_id, article_url, article_title, posting, t) ==
    [rows |-> InsertOrIgnore(rows, Row(forum_id, article_url, article_title, posting, t)),
     ret |-> TRUE]

----------------------------------------------------------------------------
(* Classification and enrichment *)

\* posting_cache.get(pid, {"id": pid, "author": "?", ...})
Placeholder(pid) ==
    [id |-> pid, author |-> "?", title |-> "?", text |-> "?",
     created_at |-> UnparsedTs, root_posting_id |-> "", parent_posting_id |-> "",
     upvotes |-> 0, downvotes |-> 0, self_deleted |-> FALSE,
     parent_author |-> "", parent_title |-> "", parent_text |-> ""]

CacheGet(cache, pid) == IF pid \in DOMAIN cache THEN cache[pid] ELSE Placeholder(pid)

\* every removed id, self-deleted or not
ModeratedUnfiltered(removed, cache) == removed

\* moderated = [pid for pid in removed if not cache.get(pid, {}).get("self_deleted")]
Moderated(removed, cache) ==
    {pid \in removed : ~(pid \in DOMAIN cache /\ cache[pid].self_deleted)}

\* no parent lookup: the posting is saved as the cache holds it
EnrichNothing(cache, posting) == posting

\* the parent fields main attaches to a posting before saving it
Enrich(cache, posting) ==
    LET parent_id == posting.parent_posting_id
    IN  IF parent_id # "" /\ parent_id \in DOMAIN cache
        THEN [posting EXCEPT !.parent_author = cache[parent_id].author,
                             !.parent_title = cache[parent_id].title,
                             !.parent_text = cache[parent_id].text]
        ELSE posting

RECURSIVE SaveAll(_, _, _, _, _, _)
\* the for pid in moderated loop: the table and the statuses logged
SaveAll(acc, pids, cache, forum_id, info, t) ==
    IF pids = {} THEN acc
    ELSE LET pid == CHOOSE x \in pids : TRUE
             posting == Enrich(cache, CacheGet(cache, pid))
             res == save_moderated(acc.rows, forum_id, info.url, info.title, posting, t)
         IN  SaveAll([rows |-> res.rows,
                      saved |-> acc.saved \cup
                          {[pid |-> pid,
                            status |-> IF res.ret THEN "saved" ELSE "already known"]}],
                     pids \ {pid}, cache, forum_id, info, t)

\* posting_cache.pop(pid) once the removal is reported
CachePrunedOfModerated(cache, moderated) ==
    [pid \in DOMAIN cache \ moderated |-> cache[pid]]

\* posting["parent_author"] = ... changes the cached dict itself, and with it
\* every snapshot that holds the same dict object
EnrichedCache(cache, moderated) ==
    [pid \in DOMAIN cache |->
        IF pid \in moderated THEN Enrich(cache, cache[pid]) ELSE cache[pid]]

EnrichedSnapshots(snaps, cache, moderated) ==
    [f \in DOMAIN snaps |->
        [pid \in DOMAIN snaps[f] |->
            IF pid \in moderated /\ pid \in DOMAIN cache /\ snaps[f][pid] = cache[pid]
            THEN Enrich(cache, cache[pid])
            ELSE snaps[f][pid]]]

----------------------------------------------------------------------------
(* The state after construction *)

NoIter ==
    [forum_id |-> None, resp |-> <<>>, fetched |-> FALSE, first |-> FALSE,
     current |-> <<>>,
     removed |-> {}, added |-> {}, moderated |-> {}, saved |-> {},
     retry |-> FALSE]

NoShared ==
    [forums |-> <<>>, forums_cycle |-> 0, snapshots |-> <<>>, snapshots_cycle |-> 0]

NoRequest ==
    [pc |-> "idle", forums |-> <<>>, forums_cycle |-> 0,
     snapshots |-> <<>>, snapshots_cycle |-> 0]

\* the command lines considered: parser.error refuses no url without --discover
ArgSets ==
    {[urls |-> <<"u1", "u3">>, discover |-> FALSE],
     [urls |-> <<"u1", "u2">>, discover |-> FALSE],
     [urls |-> <<"u1">>, discover |-> TRUE]}

\* the times at which the process may be started
StartTimes == {1, 2}

\* main() up to init_db and start_web_server
Init ==
    /\ args \in ArgSets
    /\ pc = "resolve"
    /\ forums = <<>>
    /\ snapshots = <<>>
    /\ posting_cache = <<>>
    /\ cycle = 0
    /\ todo = <<>>
    /\ iter = NoIter
    /\ attempts = <<>>
    /\ discoveries = <<>>
    /\ failing = {}
    /\ shared = NoShared
    /\ db = {}
    /\ now \in StartTimes
    /\ rd = NoRequest

----------------------------------------------------------------------------
(* main() *)

\* Resolve forum IDs for CLI URLs
ResolveUrls ==
    /\ pc = "resolve"
    /\ \E info \in InfoAnswers : forums' = ResolveLoop(forums, args.urls, info)
    /\ pc' = "discover"
    /\ UNCHANGED <<args, failing, discoveries, attempts, snapshots, posting_cache, cycle, todo, iter, shared,
                   db, now, rd>>

\* Initial discovery, and the exit when no forum was found
InitialDiscovery ==
    /\ pc = "discover"
    /\ \E rss \in RssAnswers, info \in InfoAnswers :
         forums' = IF args.discover
                   THEN ForumUpdate(forums,
                            discover_articles(forums, min_posts, rss, info))
                   ELSE forums
    /\ discoveries' = IF args.discover THEN Append(discoveries, 0) ELSE discoveries
    /\ pc' = IF forums' = <<>> /\ ~args.discover THEN "done" ELSE "loop"
    /\ UNCHANGED <<args, failing, attempts, snapshots, posting_cache, cycle, todo, iter, shared,
                   db, now, rd>>

\* cycle % discover_interval == 1: the discovery one cycle late
DiscoveryDueOffByOne(discover, c) ==
    discover /\ c > 1 /\ c % discover_interval = 1

\* if args.discover and cycle > 1 and (cycle % args.discover_interval == 0)
DiscoveryDue(discover, c) ==
    discover /\ c > 1 /\ c % discover_interval = 0

\* The head of one poll cycle: count it, run the periodic discovery, and
\* take list(forums) for the per-forum loop
BeginCycle ==
    /\ pc = "loop"
    /\ cycle' = cycle + 1
    /\ \E rss \in RssAnswers, info \in InfoAnswers :
         forums' = IF DiscoveryDue(args.discover, cycle')
                   THEN ForumUpdate(forums,
                            discover_articles(forums, min_posts, rss, info))
                   ELSE forums
    /\ discoveries' = IF DiscoveryDue(args.discover, cycle')
                      THEN Append(discoveries, cycle')
                      ELSE discoveries
    /\ todo' = ForumKeys(forums')
    /\ attempts' = <<>>
    /\ pc' = "fetch"
    /\ UNCHANGED <<args, failing, snapshots, posting_cache, iter, shared, db, now, rd>>

\* a first poll whose postings are all reported
RemovedIdsNoBaseline(snaps, forum_id, current_ids) ==
    IF forum_id \in DOMAIN snaps
    THEN DOMAIN snaps[forum_id] \ current_ids
    ELSE current_ids

\* current_ids - previous_ids taken for the removed set
RemovedIdsSwapped(snaps, forum_id, current_ids) ==
    IF forum_id \in DOMAIN snaps
    THEN current_ids \ DOMAIN snaps[forum_id]
    ELSE {}

\* previous_ids - current_ids, inside if forum_id in snapshots
RemovedIds(snaps, forum_id, current_ids) ==
    IF forum_id \in DOMAIN snaps
    THEN DOMAIN snaps[forum_id] \ current_ids
    ELSE {}

\* current_ids - previous_ids, inside if forum_id in snapshots
AddedIds(snaps, forum_id, current_ids) ==
    IF forum_id \in DOMAIN snaps
    THEN current_ids \ DOMAIN snaps[forum_id]
    ELSE {}

\* snapshots[forum_id].update(current): a merge with the previous snapshot
StoreSnapshotMerged(snaps, forum_id, current) ==
    DictUpdate(snaps,
        (forum_id :> IF forum_id \in DOMAIN snaps
                     THEN DictUpdate(snaps[forum_id], current)
                     ELSE current))

\* snapshots[forum_id] = current
StoreSnapshot(snaps, forum_id, current) ==
    DictUpdate(snaps, (forum_id :> current))

\* last_activity set by the first successful fetch only: the later fetches
\* leave the stored value
KeepLastActivity(fs, info, newest) ==
    [i \in 1..Len(fs) |->
        IF fs[i] = info /\ info.last_activity = NoneTs
        THEN [info EXCEPT !.last_activity = newest]
        ELSE fs[i]]

\* forums[forum_id]["last_activity"] = newest changes the info dict itself,
\* and with it the published dict(forums) entry that is the same object
SetLastActivity(fs, info, newest) ==
    [i \in 1..Len(fs) |->
        IF fs[i] = info THEN [info EXCEPT !.last_activity = newest] ELSE fs[i]]

\* one line of the cycle's log: "Error fetching <forum_id>" (ok = FALSE) or
\* "<url>: <n> postings" (ok = TRUE)
Attempt(forum_id, ok) == [forum_id |-> forum_id, ok |-> ok]

\* an except branch that forgets the forum's snapshot: the next fetch that
\* returns is taken for a first one
SnapshotsWithoutFailed(snaps, forum_id) ==
    [f \in DOMAIN snaps \ {forum_id} |-> snaps[f]]

\* except Exception: log, continue: snapshots[forum_id] is not touched
SnapshotsAfterError(snaps, forum_id) == snaps

\* a break where the continue is: the rest of list(forums) is given up
Break(rest) == <<>>

\* except Exception: continue leaves the rest of list(forums) to be tried
Continue(rest) == Tail(rest)

\* One iteration of for forum_id in list(forums): fetch, diff, classify,
\* enrich, save, store the snapshot
ForumStep ==
    /\ pc = "fetch"
    /\ todo # <<>>
    /\ \E resp \in Responses(Head(todo), now) :
         LET forum_id == Head(todo)
             info == ForumGet(forums, forum_id)
             fetched == fetch_all_postings(resp)
         IN  IF ~fetched.ok
             THEN /\ iter' = [NoIter EXCEPT !.forum_id = forum_id, !.resp = resp,
                                           !.retry = forum_id \in failing]
                  /\ attempts' = Append(attempts, Attempt(forum_id, FALSE))
                  /\ failing' = failing \cup {forum_id}
                  /\ todo' = Continue(todo)
                  /\ snapshots' = SnapshotsAfterError(snapshots, forum_id)
                  /\ UNCHANGED <<forums, posting_cache, shared, db>>
             ELSE LET current == fetched.postings
                      current_ids == DOMAIN current
                      newest == newest_posting_time(current)
                      cache == DictUpdate(posting_cache, current)
                      first == forum_id \notin DOMAIN snapshots
                      removed == RemovedIds(snapshots, forum_id, current_ids)
                      added == AddedIds(snapshots, forum_id, current_ids)
                      moderated == Moderated(removed, cache)
                      done == SaveAll([rows |-> db, saved |-> {}], moderated,
                                      cache, forum_id, info, now)
                  IN  /\ forums' = IF newest # NoneTs
                                   THEN SetLastActivity(forums, info, newest)
                                   ELSE forums
                      /\ posting_cache' = EnrichedCache(cache, moderated)
                      /\ snapshots' =
                            StoreSnapshot(
                                EnrichedSnapshots(snapshots, cache, moderated),
                                forum_id, current)
                      /\ shared' =
                            [shared EXCEPT
                                !.forums = IF newest # NoneTs
                                           THEN SetLastActivity(@, info, newest)
                                           ELSE @,
                                !.snapshots = EnrichedSnapshots(@, cache, moderated)]
                      /\ db' = done.rows
                      /\ iter' = [forum_id |-> forum_id, resp |-> resp,
                                  fetched |-> TRUE,
                                  first |-> first, current |-> current,
                                  removed |-> removed, added |-> added,
                                  moderated |-> moderated, saved |-> done.saved,
                                  retry |-> forum_id \in failing]
                      /\ attempts' = Append(attempts, Attempt(forum_id, TRUE))
                      /\ failing' = failing \ {forum_id}
                      /\ todo' = Tail(todo)
    /\ UNCHANGED <<args, discoveries, pc, cycle, now, rd>>

\* _shared["forums"] = dict(forums)
PublishForums ==
    /\ pc = "fetch"
    /\ todo = <<>>
    /\ shared' = [shared EXCEPT !.forums = forums, !.forums_cycle = cycle]
    /\ iter' = NoIter
    /\ pc' = "publish"
    /\ UNCHANGED <<args, failing, discoveries, attempts, forums, snapshots, posting_cache, cycle, todo, db, now, rd>>

\* _shared["snapshots"] = dict(snapshots)
PublishSnapshots ==
    /\ pc = "publish"
    /\ shared' = [shared EXCEPT !.snapshots = snapshots, !.snapshots_cycle = cycle]
    /\ pc' = "cleanup"
    /\ UNCHANGED <<args, failing, discoveries, attempts, forums, snapshots, posting_cache, cycle, todo, iter,
                   db, now, rd>>

\* a cleanup that takes a missing last_activity for the oldest of all
StaleAbsentToo(fs, t) ==
    {fs[i].forum_id : i \in {j \in 1..Len(fs) :
        t - fs[j].last_activity > max_inactive}}

\* a cleanup that drops a forum as soon as its age reaches max_inactive
StaleAtThreshold(fs, t) ==
    {fs[i].forum_id : i \in {j \in 1..Len(fs) :
        /\ fs[j].last_activity # NoneTs
        /\ t - fs[j].last_activity >= max_inactive}}

\* stale: the forums whose last_activity is older than max_inactive
Stale(fs, t) ==
    {fs[i].forum_id : i \in {j \in 1..Len(fs) :
        /\ fs[j].last_activity # NoneTs
        /\ t - fs[j].last_activity > max_inactive}}

\* for forum_id in stale: forums.pop(forum_id)
PopForums(fs, stale) == SelectSeq(fs, LAMBDA e : e.forum_id \notin stale)

\* a cleanup that forgets the snapshots
PopSnapshotsKept(snaps, stale) == snaps

\* the pop applied to the forums that stay: their snapshots go, those of
\* the evicted forums remain
PopSnapshotsOfKept(snaps, stale) == [f \in DOMAIN snaps \cap stale |-> snaps[f]]

\* snapshots[forum_id] = {} where the pop is: the evicted forum keeps an
\* empty snapshot
PopSnapshotsEmptied(snaps, stale) ==
    [f \in DOMAIN snaps |-> IF f \in stale THEN EmptyDict ELSE snaps[f]]

\* for forum_id in stale: snapshots.pop(forum_id, None)
PopSnapshots(snaps, stale) == [f \in DOMAIN snaps \ stale |-> snaps[f]]

\* Cleanup inactive forums
Cleanup ==
    /\ pc = "cleanup"
    /\ LET stale == IF max_inactive > 0 THEN Stale(forums, now) ELSE {}
       IN  /\ forums' = PopForums(forums, stale)
           /\ snapshots' = PopSnapshots(snapshots, stale)
           /\ failing' = failing \ stale
    /\ pc' = "sleep"
    /\ UNCHANGED <<args, discoveries, attempts, posting_cache, cycle, todo, iter, shared, db, now, rd>>

\* time.sleep(args.interval) returns
Sleep ==
    /\ pc = "sleep"
    /\ now < MaxTime
    /\ now' = now + 1
    /\ pc' = "loop"
    /\ UNCHANGED <<args, failing, discoveries, attempts, forums, snapshots, posting_cache, cycle, todo, iter,
                   shared, db, rd>>

\* KeyboardInterrupt during the sleep: break, conn.close()
Interrupt ==
    /\ pc = "sleep"
    /\ pc' = "done"
    /\ UNCHANGED <<args, failing, discoveries, attempts, forums, snapshots, posting_cache, cycle, todo, iter,
                   shared, db, now, rd>>

\* conn.execute raises an sqlite3 error that is no IntegrityError (the
\* database is locked, the disk is full) in the first save_moderated of an
\* iteration.  save_moderated catches IntegrityError only and the loop body
\* has no handler around it: the exception leaves main(), the snapshot of
\* the forum is not stored and conn.close() is not reached.
SaveRaises ==
    /\ pc = "fetch"
    /\ todo # <<>>
    /\ \E resp \in Responses(Head(todo), now) :
         LET forum_id == Head(todo)
             info == ForumGet(forums, forum_id)
             fetched == fetch_all_postings(resp)
             current == fetched.postings
             newest == newest_posting_time(current)
             cache == DictUpdate(posting_cache, current)
             removed == RemovedIds(snapshots, forum_id, DOMAIN current)
             added == AddedIds(snapshots, forum_id, DOMAIN current)
             moderated == Moderated(removed, cache)
         IN  /\ fetched.ok
             /\ \E pid \in moderated :
                  /\ forums' = IF newest # NoneTs
                               THEN SetLastActivity(forums, info, newest)
                               ELSE forums
                  /\ posting_cache' = EnrichedCache(cache, {pid})
                  /\ snapshots' = EnrichedSnapshots(snapshots, cache, {pid})
                  /\ shared' =
                        [shared EXCEPT
                            !.forums = IF newest # NoneTs
                                       THEN SetLastActivity(@, info, newest)
                                       ELSE @,
                            !.snapshots = EnrichedSnapshots(@, cache, {pid})]
                  /\ iter' = [forum_id |-> forum_id, resp |-> resp,
                              fetched |-> TRUE, first |-> FALSE,
                              current |-> current,
                              removed |-> removed, added |-> added,
                              moderated |-> moderated, saved |-> {},
                              retry |-> forum_id \in failing]
                  /\ attempts' = Append(attempts, Attempt(forum_id, TRUE))
                  /\ failing' = failing \ {forum_id}
    /\ pc' = "crashed"
    /\ UNCHANGED <<args, discoveries, cycle, todo, db, now, rd>>

\* SIGINT arrives while fetch_all_postings waits for the API: the
\* KeyboardInterrupt is no Exception, so except Exception (line 1045) lets
\* it pass; the only handler is the one around time.sleep.  main() ends with
\* the traceback, conn.close() is not reached.
FetchInterrupted ==
    /\ pc = "fetch"
    /\ todo # <<>>
    /\ iter' = [NoIter EXCEPT !.forum_id = Head(todo)]
    /\ pc' = "interrupted"
    /\ UNCHANGED <<args, failing, discoveries, attempts, forums, snapshots, posting_cache, cycle,
                   todo, shared, db, now, rd>>

\* The process is started again on the same database: main() from the top
Restart ==
    /\ pc = "done"
    /\ pc' = "resolve"
    /\ forums' = <<>>
    /\ snapshots' = <<>>
    /\ posting_cache' = <<>>
    /\ cycle' = 0
    /\ todo' = <<>>
    /\ iter' = NoIter
    /\ shared' = NoShared
    /\ attempts' = <<>>
    /\ discoveries' = <<>>
    /\ failing' = {}
    /\ rd' = NoRequest
    /\ UNCHANGED <<args, db, now>>

----------------------------------------------------------------------------
(* The dashboard thread: _DashboardHandler._handle_dashboard *)

\* forums = _shared["forums"]
ReadForums ==
    /\ rd.pc = "idle"
    /\ pc # "resolve"
    /\ rd' = [rd EXCEPT !.pc = "forums", !.forums = shared.forums,
                        !.forums_cycle = shared.forums_cycle]
    /\ UNCHANGED <<args, failing, discoveries, attempts, pc, forums, snapshots, posting_cache, cycle, todo,
                   iter, shared, db, now>>

\* snapshots = _shared["snapshots"]
ReadSnapshots ==
    /\ rd.pc = "forums"
    /\ rd' = [rd EXCEPT !.pc = "render", !.snapshots = shared.snapshots,
                        !.snapshots_cycle = shared.snapshots_cycle]
    /\ UNCHANGED <<args, failing, discoveries, attempts, pc, forums, snapshots, posting_cache, cycle, todo,
                   iter, shared, db, now>>

\* the page is built and sent
Render ==
    /\ rd.pc = "render"
    /\ rd' = NoRequest
    /\ UNCHANGED <<args, failing, discoveries, attempts, pc, forums, snapshots, posting_cache, cycle, todo,
                   iter, shared, db, now>>

----------------------------------------------------------------------------
(* Specifications *)

Next ==
    \/ ResolveUrls
    \/ InitialDiscovery
    \/ BeginCycle
    \/ ForumStep
    \/ PublishForums
    \/ PublishSnapshots
    \/ Cleanup
    \/ Sleep
    \/ Interrupt

\* the orchestrator alone
Spec == Init /\ [][Next]_vars

\* a command line without --discover, first started at the later start time
\* (a run stopped and started again covers the starts in between)
InitRestart == Init /\ ~args.discover /\ now = 2

NextDashboard ==
    \/ Next
    \/ ReadForums
    \/ ReadSnapshots
    \/ Render

\* the orchestrator and the dashboard thread
\* one forum given on the command line, no discovery
InitDashboard == Init /\ args = [urls |-> <<"u1", "u3">>, discover |-> FALSE]

SpecDashboard == InitDashboard /\ [][NextDashboard]_vars

NextRestart ==
    \/ Next
    \/ Restart

\* the orchestrator, stopped and started again on the same database
SpecRestart == InitRestart /\ [][NextRestart]_vars

NextFaults ==
    \/ Next
    \/ SaveRaises
    \/ FetchInterrupted

\* the orchestrator with a database that may refuse a write and a stop
\* signal that may arrive during a fetch
SpecFaults == InitRestart /\ [][NextFaults]_vars

----------------------------------------------------------------------------
(* fetch_all_postings taken by itself, on reply trees of three postings *)

\* the posting ids of the trees
TreeIds == {"p1", "p2", "p3"}

\* a published posting of forum f1 with the replies given
Reply(pid, replies) == Node("f1", pid, "Published", replies)

\* The edges of a forum with up to three postings a, b, c: every way to
\* nest them as top-level postings, replies, and replies to replies
TreesOf(a, b, c) ==
    {<<Reply(a, <<>>)>>,
     <<Reply(a, <<Reply(b, <<>>)>>)>>,
     <<Reply(a, <<>>), Reply(b, <<>>)>>,
     <<Reply(a, <<Reply(b, <<Reply(c, <<>>)>>)>>)>>,
     <<Reply(a, <<Reply(b, <<>>), Reply(c, <<>>)>>)>>,
     <<Reply(a, <<Reply(b, <<>>)>>), Reply(c, <<>>)>>,
     <<Reply(a, <<>>), Reply(b, <<Reply(c, <<>>)>>)>>,
     <<Reply(a, <<>>), Reply(b, <<>>), Reply(c, <<>>)>>}

Trees ==
    UNION {TreesOf(t[1], t[2], t[3]) :
            t \in {u \in TreeIds \X TreeIds \X TreeIds :
                        u[1] # u[2] /\ u[1] # u[3] /\ u[2] # u[3]}}

\* The answers to one fetch: the edges on one page, or the first edge on a
\* first page and the others on a second
TreeResponses ==
    {<<Page(e, FALSE)>> : e \in Trees}
    \cup {<<Page(<<Head(e)>>, TRUE), Page(Tail(e), FALSE)>> :
            e \in {t \in Trees : Len(t) > 1}}

\* before the call: the answers the API will give
InitFlatten ==
    /\ args = [urls |-> <<"u1">>, discover |-> FALSE]
    /\ pc = "flatten"
    /\ forums = <<>>
    /\ snapshots = <<>>
    /\ posting_cache = <<>>
    /\ cycle = 0
    /\ todo = <<>>
    /\ \E resp \in TreeResponses :
         iter = [NoIter EXCEPT !.forum_id = "f1", !.resp = resp]
    /\ attempts = <<>>
    /\ discoveries = <<>>
    /\ failing = {}
    /\ shared = NoShared
    /\ db = {}
    /\ now = 1
    /\ rd = NoRequest

\* current = fetch_all_postings(forum_id)
Flatten ==
    /\ pc = "flatten"
    /\ LET fetched == fetch_all_postings(iter.resp)
       IN  iter' = [iter EXCEPT !.fetched = fetched.ok, !.current = fetched.postings]
    /\ pc' = "flattened"
    /\ UNCHANGED <<args, failing, discoveries, attempts, forums, snapshots, posting_cache, cycle,
                   todo, shared, db, now, rd>>

SpecFlatten == InitFlatten /\ [][Flatten]_vars

----------------------------------------------------------------------------
(* Properties *)

\* the step is the per-forum iteration for forum f
IterationOf(f) ==
    /\ pc = "fetch"
    /\ todo # <<>>
    /\ Head(todo) = f
    /\ todo' = Tail(todo)

\* the answers make the fetch raise: a failed call or a malformed node
FetchFails(resp) ==
    \E i \in 1..Len(resp) :
        \/ resp[i].error
        \/ \E j \in 1..Len(resp[i].edges) : ~NodeOk(resp[i].edges[j])

RECURSIVE NodeIds(_)
\* the ids of a node and of the replies below it
NodeIds(node) ==
    {node.id} \cup UNION {NodeIds(node.replies[i]) : i \in 1..Len(node.replies)}

\* the ids of every node on every page
FetchedIds(resp) ==
    UNION {UNION {NodeIds(resp[i].edges[j]) : j \in 1..Len(resp[i].edges)} :
              i \in 1..Len(resp)}

\* the cached record of pid says the author deleted it
CachedSelfDeleted(pid) ==
    pid \in DOMAIN posting_cache /\ posting_cache[pid].self_deleted

\* C1: the first successful fetch of a forum without a stored snapshot
\* stores the fetched set as its snapshot and persists no moderation event.
C1_FirstFetchSeedsOnly ==
    [][\A f \in ForumIds :
        (IterationOf(f) /\ f \notin DOMAIN snapshots /\ ~FetchFails(iter'.resp))
        => /\ f \in DOMAIN snapshots'
           /\ snapshots'[f] = iter'.current
           /\ DOMAIN snapshots'[f] = FetchedIds(iter'.resp)
           /\ iter'.saved = {}
           /\ db' = db]_vars

\* a first fetch in a later cycle brought postings while the cache already
\* held an id that the fetch did not bring
C1_Witness ==
    /\ iter.fetched
    /\ iter.first
    /\ cycle > 1
    /\ DOMAIN iter.current # {}
    /\ DOMAIN posting_cache \ DOMAIN iter.current # {}
    /\ iter.forum_id \in DOMAIN snapshots

\* C2: the table holds at most one moderation event per (forum_id,
\* posting_id), whatever cycles, saves and restarts happened.
C2_OneRowPerKey ==
    \A r1 \in db : \A r2 \in db :
        (r1.forum_id = r2.forum_id /\ r1.posting_id = r2.posting_id) => r1 = r2

\* after a restart a removal was saved whose key the table held already
C2_Witness ==
    /\ cycle = 2
    /\ \E e \in iter.saved : \E r \in db :
        /\ r.forum_id = iter.forum_id
        /\ r.posting_id = e.pid
        /\ r.moderated_at < now

\* C3: in a successful fetch of a forum that has a stored snapshot, the ids
\* handed to save_moderated are exactly those of the stored snapshot that
\* are absent from the fetch and not self-deleted in the cache; no id of the
\* fetch gets a row.
C3_SavedAreRemovedNotSelfDeleted ==
    [][\A f \in ForumIds :
        (IterationOf(f) /\ f \in DOMAIN snapshots /\ ~FetchFails(iter'.resp))
        => LET cur == FetchedIds(iter'.resp)
               expected == {pid \in DOMAIN snapshots[f] \ cur :
                               ~CachedSelfDeleted(pid)}
           IN  /\ {e.pid : e \in iter'.saved} = expected
               /\ \A r \in db' \ db :
                    r.forum_id = f /\ r.posting_id \in expected
               /\ \A r \in db' \ db : r.posting_id \notin cur]_vars

\* one fetch added an id and lost another, and the lost one was saved
C3_Witness ==
    /\ iter.fetched
    /\ ~iter.first
    /\ iter.added # {}
    /\ iter.saved # {}
    /\ \E r \in db : r.forum_id = iter.forum_id /\ r.moderated_at = now
                     /\ r.posting_id \in iter.removed

\* C4: a removed id is a moderation candidate exactly when its cached
\* record is not self-deleted, and no row is inserted for a posting whose
\* cached record is self-deleted.
C4_SelfDeletedExcluded ==
    [][\A f \in ForumIds :
        (IterationOf(f) /\ ~FetchFails(iter'.resp))
        => /\ \A pid \in iter'.removed :
                (pid \in iter'.moderated) <=> ~CachedSelfDeleted(pid)
           /\ \A e \in iter'.saved : ~CachedSelfDeleted(e.pid)
           /\ \A r \in db' \ db : ~CachedSelfDeleted(r.posting_id)]_vars

\* one fetch lost a self-deleted posting and a posting that was not
C4_Witness ==
    /\ iter.fetched
    /\ iter.moderated # {}
    /\ iter.removed \ iter.moderated # {}
    /\ \A pid \in iter.removed \ iter.moderated : posting_cache[pid].self_deleted

\* C5: a fetch that fails leaves the forum's snapshot and last_activity, the
\* posting cache and the table as they were.
C5_FailedFetchChangesNothing ==
    [][\A f \in ForumIds :
        (IterationOf(f) /\ FetchFails(iter'.resp))
        => /\ forums' = forums
           /\ snapshots' = snapshots
           /\ posting_cache' = posting_cache
           /\ db' = db
           /\ iter'.saved = {}]_vars

\* the second page of a fetch failed for a forum whose snapshot holds postings
C5_Witness ==
    /\ iter.forum_id \in DOMAIN snapshots
    /\ ~iter.fetched
    /\ Len(iter.resp) = 2
    /\ DOMAIN snapshots[iter.forum_id] # {}
    /\ ForumGet(forums, iter.forum_id).last_activity # NoneTs

\* C6: the forums and the snapshots one dashboard request obtains were
\* published by the same cycle.
C6_RequestSeesOneCycle ==
    rd.pc = "render" => rd.forums_cycle = rd.snapshots_cycle

\* both keys of _shared were set by the same cycle
PublishedPair == shared.forums_cycle = shared.snapshots_cycle

C8_DuplicateReported ==
    [][\A f \in ForumIds :
        IterationOf(f)
        => \A e \in iter'.saved :
            /\ (e.status = "already known") <=>
                    (\E r \in db : r.forum_id = f /\ r.posting_id = e.pid)
            /\ Cardinality({r \in db' : r.forum_id = f /\ r.posting_id = e.pid}) = 1]_vars

\* C9: after a successful fetch the stored snapshot of the forum is the
\* fetched set: every fetched id, and no other.
C9_SnapshotIsTheFetch ==
    [][\A f \in ForumIds :
        (IterationOf(f) /\ ~FetchFails(iter'.resp))
        => /\ f \in DOMAIN snapshots'
           /\ snapshots'[f] = iter'.current
           /\ DOMAIN snapshots'[f] = FetchedIds(iter'.resp)]_vars

\* a fetch that lacks an id of the previous snapshot was stored
C9_Witness ==
    /\ iter.fetched
    /\ ~iter.first
    /\ iter.removed # {}
    /\ DOMAIN iter.current # {}
    /\ snapshots[iter.forum_id] = iter.current

\* C10: once the cleanup pass has finished, no forum it found stale is in
\* the forums the dashboard reads.
C10_EvictedAbsentFromPublished ==
    [][(pc = "cleanup" /\ pc' = "sleep")
        => \A f \in Stale(forums, now) : f \notin ForumSet(shared'.forums)]_vars

\* C11: a monitored forum whose last_activity is None stays monitored in
\* every step of the orchestrator, the cleanup pass included.
C11_AbsentActivityNeverEvicted ==
    [][\A i \in 1..Len(forums) :
        forums[i].last_activity = NoneTs
        => forums[i].forum_id \in ForumSet(forums')]_vars

\* a late cleanup pass dropped a forum and kept one without last_activity
C11_Witness ==
    /\ pc = "sleep"
    /\ cycle >= 3
    /\ ForumSet(shared.forums) \ ForumSet(forums) # {}
    /\ \E i \in 1..Len(forums) :
        /\ forums[i].last_activity = NoneTs
        /\ forums[i].forum_id \in ForumSet(shared.forums)
        /\ \E j \in 1..Len(attempts) : attempts[j].forum_id = forums[i].forum_id

\* the discovery pass is the next thing main() does
BeforeDiscovery ==
    /\ args.discover
    /\ \/ pc = "discover"
       \/ pc = "loop" /\ cycle + 1 > 1 /\ (cycle + 1) % discover_interval = 0

\* the feed lists an article whose forum is not monitored and has fewer
\* postings than the minimum
BelowMinimum(rss, info, k) ==
    /\ rss.ok
    /\ k \in 1..Len(rss.items)
    /\ ~info[rss.items[k].url].error
    /\ info[rss.items[k].url].forum_id # None
    /\ info[rss.items[k].url].forum_id \notin ForumSet(forums)
    /\ info[rss.items[k].url].count < min_posts

\* C12: whatever the feed and get_forum_info answer to a discovery pass
\* (the initial or a periodic one), every forum the pass adds was reported
\* with a posting count of at least min_posts: a candidate below the
\* minimum is not in the forums after the pass.
C12_BelowMinimumNeverAdded ==
    BeforeDiscovery =>
        \A rss \in RssAnswers : \A info \in InfoAnswers :
            LET new == discover_articles(forums, min_posts, rss, info)
                after == ForumUpdate(forums, new)
            IN  /\ \A i \in 1..Len(new) :
                    /\ ~info[new[i].url].error
                    /\ info[new[i].url].forum_id = new[i].forum_id
                    /\ info[new[i].url].count >= min_posts
                /\ \A k \in 1..Len(rss.items) :
                    BelowMinimum(rss, info, k) =>
                        \A i \in 1..Len(after) :
                            after[i].url # rss.items[k].url

\* a periodic discovery, not the first, is about to run; the feed lists a
\* candidate below the minimum next to one that is added
C12_Witness ==
    /\ BeforeDiscovery
    /\ pc = "loop"
    /\ cycle >= 3
    /\ \E rss \in RssAnswers : \E info \in InfoAnswers :
        /\ \E k \in 1..Len(rss.items) : BelowMinimum(rss, info, k)
        /\ discover_articles(forums, min_posts, rss, info) # <<>>

\* C13: the stored last_activity of a monitored forum never moves
\* backwards: a fetch replaces it only by a later time.
C13_LastActivityNeverBackwards ==
    [][\A f \in ForumIds :
        (IterationOf(f) /\ ~FetchFails(iter'.resp)
            /\ ForumGet(forums, f).last_activity # NoneTs)
        => ForumGet(forums', f).last_activity >= ForumGet(forums, f).last_activity]_vars

\* the forums whose fetch failed in the cycle under way
FailedNow ==
    {attempts[j].forum_id : j \in {k \in 1..Len(attempts) : ~attempts[k].ok}}

\* the last_activity of the monitored forum is older than max_inactive
TooOld(f) ==
    /\ ForumGet(forums, f).last_activity # NoneTs
    /\ now - ForumGet(forums, f).last_activity > max_inactive

\* the step from the head of the per-forum loop tries the forum at the head
\* of the list
HeadIsTried ==
    (pc = "fetch" /\ todo # <<>>)
    => /\ attempts' = Append(attempts, Attempt(Head(todo), ~FetchFails(iter'.resp)))
       /\ todo' = Tail(todo)
       /\ pc' = "fetch"

\* C14 as claimed: a forum whose fetch failed in a cycle stays monitored
\* until the next cycle starts, is in the list of forums the next cycle
\* takes, and every forum of that list is tried.
C14_FailedForumRetried ==
    [][/\ \A f \in FailedNow \cap ForumSet(forums) :
            /\ f \in ForumSet(forums')
            /\ pc = "loop" => \E k \in 1..Len(todo') : todo'[k] = f
       /\ HeadIsTried]_vars

\* C14 as amended: the same, unless the cleanup pass of the cycle drops the
\* forum because its last_activity, which the failed fetch left as it was,
\* is older than max_inactive.
C14_FailedForumRetriedUnlessStale ==
    [][/\ \A f \in FailedNow \cap ForumSet(forums) :
            /\ f \in ForumSet(forums') \/ (pc = "cleanup" /\ TooOld(f))
            /\ pc = "loop" => \E k \in 1..Len(todo') : todo'[k] = f
       /\ HeadIsTried]_vars

\* the next cycle is about to start with a forum whose fetch failed in the
\* cycle before and whose last_activity the cleanup pass found recent enough
C14_Witness ==
    /\ pc = "loop"
    /\ cycle >= 2
    /\ \E f \in FailedNow \cap ForumSet(forums) :
        /\ ForumGet(forums, f).last_activity # NoneTs
        /\ f \in DOMAIN snapshots

\* main() is inside while True
LoopPcs == {"loop", "fetch", "publish", "cleanup", "sleep"}

\* C15: the poll loop is left (by the orderly exit or by an exception that
\* is no stop signal) only from the sleep between cycles: no error met while
\* one forum is fetched, classified and saved ends it.
C15_LoopEndsOnlyInSleep ==
    [][(pc \in LoopPcs /\ pc' \in {"done", "crashed"}) => pc = "sleep"]_vars

\* C16: a stop signal ends the loop only at the sleep or between two
\* forums, by the orderly exit (conn.close() reached), and the rows saved
\* before it are still in the table.
C16_StopIsOrderly ==
    [][(pc \in LoopPcs /\ pc' \in {"done", "interrupted"})
        => /\ pc' = "done"
           /\ pc \in {"sleep", "fetch"}
           /\ iter' = iter
           /\ db' = db]_vars

\* C17: what _shared holds changes only when main() publishes: no other
\* step of the orchestrator alters a forum entry or a posting of the
\* published forums and snapshots.
C17_PublishedViewNotMutated ==
    [][~(pc = "fetch" /\ todo = <<>>) /\ pc # "publish" => shared' = shared]_vars

\* the root_posting_id of the posting an iteration saves for pid: that of
\* its cached record, none for a posting the cache does not hold
RootOfSaved(pid) ==
    IF pid \in DOMAIN posting_cache'
    THEN posting_cache'[pid].root_posting_id
    ELSE ""

\* C18: every row an iteration inserts has is_reply = 1 and thread_id = the
\* posting's root_posting_id when that is not empty, and is_reply = 0 and
\* thread_id = the posting's own id when it is empty.
C18_ThreadAndReplyFromRoot ==
    [][\A f \in ForumIds :
        IterationOf(f)
        => \A r \in db' \ db :
            /\ RootOfSaved(r.posting_id) # ""
                => r.is_reply = 1 /\ r.thread_id = RootOfSaved(r.posting_id)
            /\ RootOfSaved(r.posting_id) = ""
                => r.is_reply = 0 /\ r.thread_id = r.posting_id]_vars

\* the table holds a row of a reply, filed under its root, and a row of a
\* root posting, filed under itself
C18_Witness ==
    /\ \E r \in db : r.is_reply = 1 /\ r.thread_id # r.posting_id
    /\ \E r \in db : r.is_reply = 0 /\ r.thread_id = r.posting_id

\* the forum ids of the attempts, in the order they were made
Tried == [k \in 1..Len(attempts) |-> attempts[k].forum_id]

\* C19: during and after the per-forum pass of a cycle, the forums tried so
\* far followed by the forums still to be tried are the monitored forums,
\* each once, whether the fetches tried so far failed or not: when the pass
\* is over every monitored forum has been tried exactly once.
C19_EveryForumTriedOnce ==
    pc \in {"fetch", "publish", "cleanup"}
    => /\ Tried \o todo = ForumKeys(forums)
       /\ \A i \in 1..Len(forums) : \A j \in 1..Len(forums) :
            forums[i].forum_id = forums[j].forum_id => i = j
       /\ pc # "fetch" => todo = <<>>

\* the pass is over: the fetch of the first forum failed, the second forum
\* was fetched, lost a posting, had it saved and its snapshot stored
C19_Witness ==
    /\ pc = "publish"
    /\ Len(attempts) = 2
    /\ ~attempts[1].ok
    /\ attempts[2].ok
    /\ attempts[2].forum_id \in DOMAIN snapshots
    /\ \E r \in db : r.forum_id = attempts[2].forum_id /\ r.moderated_at = now

RECURSIVE Malformed(_)
\* the node, or a reply below it, lacks its id, its author's name or its
\* creation time
Malformed(node) ==
    \/ "id" \notin DOMAIN node
    \/ "author" \notin DOMAIN node
    \/ "name" \notin DOMAIN node.author
    \/ "history" \notin DOMAIN node
    \/ "created" \notin DOMAIN node.history
    \/ \E i \in 1..Len(node.replies) : Malformed(node.replies[i])

\* one of the calls failed or one of the pages holds a malformed node
BrokenFetch(resp) ==
    \E i \in 1..Len(resp) :
        \/ resp[i].error
        \/ \E j \in 1..Len(resp[i].edges) : Malformed(resp[i].edges[j])

\* C20: when a page of a forum's fetch fails or holds a node without id,
\* author name or creation time, the fetch is logged as failed and the
\* posting cache and the snapshots stay as they were: no posting of the
\* pages read before enters them.
C20_MalformedFetchFailsWhole ==
    [][\A f \in ForumIds :
        (IterationOf(f) /\ BrokenFetch(iter'.resp))
        => /\ attempts' = Append(attempts, Attempt(f, FALSE))
           /\ posting_cache' = posting_cache
           /\ snapshots' = snapshots
           /\ ~iter'.fetched]_vars

\* a good first page was read, the second page held a malformed node, and
\* the posting of the first page is in neither the cache nor a snapshot
C20_Witness ==
    /\ pc = "fetch"
    /\ Len(iter.resp) = 2
    /\ ~iter.resp[2].error
    /\ BrokenFetch(iter.resp)
    /\ iter.resp[1].edges # <<>>
    /\ iter.resp[1].edges[1].id \notin DOMAIN posting_cache
    /\ iter.forum_id \notin DOMAIN snapshots
    /\ attempts # <<>>
    /\ ~attempts[Len(attempts)].ok

----------------------------------------------------------------------------
(* C21: at every cycle boundary, and in fact in every state, each stored
   snapshot belongs to a monitored forum: the diff pass stores a snapshot
   only under a forum of list(forums), and the cleanup pops the forum and
   its snapshot in one pass. *)
C21_SnapshotsBelongToMonitored ==
    DOMAIN snapshots \subseteq ForumSet(forums)

\* a cleanup evicted a forum that had a snapshot, and another forum keeps
\* its snapshot
C21_Witness ==
    /\ pc = "sleep"
    /\ \E f \in DOMAIN shared.snapshots :
         /\ f \notin ForumSet(forums)
         /\ f \notin DOMAIN snapshots
    /\ snapshots # <<>>

----------------------------------------------------------------------------
\* the last_activity of forum f in fs is no older than max_inactive at time t
Recent(fs, f, t) ==
    /\ ForumGet(fs, f).last_activity # NoneTs
    /\ t - ForumGet(fs, f).last_activity <= max_inactive

\* the fetched postings hold one whose created_at is no older than
\* max_inactive at time t
HasRecent(postings, t) ==
    \E pid \in DOMAIN postings :
        /\ ParsesOk(postings[pid].created_at)
        /\ t - postings[pid].created_at <= max_inactive

\* the ids of the snapshot the latest iteration was diffed against
PreviousIds == (DOMAIN iter.current \ iter.added) \cup iter.removed

(* C22: the cleanup pass decides on the last_activity the diff pass of the
   same cycle produced.  A successful fetch that yields a posting no older
   than max_inactive leaves the forum with a recent last_activity, whatever
   was stored before; nothing between that iteration and the cleanup pass
   changes the entry; and the cleanup pass keeps every forum whose
   last_activity is recent. *)
C22_EvictionAfterDiffPass ==
    [][/\ \A f \in ForumSet(forums) :
            (IterationOf(f) /\ iter'.fetched /\ HasRecent(iter'.current, now))
            => (f \in ForumSet(forums') /\ Recent(forums', f, now))
       /\ \A f \in ForumSet(forums) :
            (pc \in {"fetch", "publish"} /\ ~IterationOf(f))
            => (f \in ForumSet(forums') /\ ForumGet(forums', f) = ForumGet(forums, f))
       /\ \A f \in ForumSet(forums) :
            (pc = "cleanup" /\ Recent(forums, f, now)) => f \in ForumSet(forums')]_vars

\* the last iteration of a cycle fetched a recent posting for a forum whose
\* snapshot before held only postings older than max_inactive
C22_Witness ==
    /\ pc = "fetch"
    /\ todo = <<>>
    /\ iter.fetched
    /\ ~iter.first
    /\ HasRecent(iter.current, now)
    /\ Recent(forums, iter.forum_id, now)
    /\ PreviousIds # {}
    /\ \A pid \in PreviousIds :
         /\ ParsesOk(posting_cache[pid].created_at)
         /\ now - posting_cache[pid].created_at > max_inactive

----------------------------------------------------------------------------
\* the cycles up to c whose number is a multiple of discover_interval, the
\* first cycle left out
DueCycles(c) ==
    SelectSeq([k \in 1..c |-> k], LAMBDA k : k > 1 /\ k % discover_interval = 0)

(* C23: with --discover, discovery runs once at startup, before the first
   cycle, and afterwards in exactly the cycles whose number is a multiple
   of discover_interval, the first cycle excluded; without --discover it
   never runs.  The run of a cycle is logged before the per-forum pass of
   that cycle starts: from the first state of the pass on, the log holds the
   cycle if it is due. *)
C23_DiscoveryCycles ==
    pc \notin {"resolve", "discover"}
    => discoveries = IF args.discover THEN <<0>> \o DueCycles(cycle) ELSE <<>>

\* the per-forum pass of a due cycle is about to start, after the discovery
\* of that cycle and of the startup, and a cycle in between ran without one
C23_Witness ==
    /\ args.discover
    /\ pc = "fetch"
    /\ attempts = <<>>
    /\ cycle > 2
    /\ discoveries[Len(discoveries)] = cycle
    /\ Len(discoveries) < cycle

----------------------------------------------------------------------------
\* every entry of before is in after, with the same url, title and
\* last_activity
EntriesKept(before, after) ==
    \A i \in 1..Len(before) : \E j \in 1..Len(after) : after[j] = before[i]

(* C24: whatever get_forum_info and the feed answer, onboarding an article
   url whose forum is already monitored leaves the entry of that forum as
   it is, and a url that resolves to no forum adds nothing.  For the urls
   of the command line: the forums after the first k urls keep every entry
   the first k - 1 urls made, and gain at most the forum of the k-th url,
   if it resolved.  For a discovery pass: every monitored entry is kept,
   and every added forum is the resolved forum of a listed article. *)
C24_MonitoredEntryKept ==
    /\ pc = "resolve" =>
         \A info \in InfoAnswers : \A k \in 1..Len(args.urls) :
            LET before == ResolveLoop(forums, SubSeq(args.urls, 1, k - 1), info)
                after == ResolveLoop(forums, SubSeq(args.urls, 1, k), info)
                r == info[args.urls[k]]
            IN  /\ EntriesKept(before, after)
                /\ (r.error \/ r.forum_id = None) => after = before
                /\ ForumSet(after) \subseteq ForumSet(before) \cup {r.forum_id}
    /\ BeforeDiscovery =>
         \A rss \in RssAnswers : \A info \in InfoAnswers :
            LET after == ForumUpdate(forums,
                            discover_articles(forums, min_posts, rss, info))
            IN  /\ EntriesKept(forums, after)
                /\ \A f \in ForumSet(after) \ ForumSet(forums) :
                     \E k \in 1..Len(rss.items) :
                        /\ ~info[rss.items[k].url].error
                        /\ info[rss.items[k].url].forum_id = f

----------------------------------------------------------------------------
(* C25: a row of moderated_postings is never changed and never removed: when
   a posting that has a row reappears in a fetch and disappears again, the
   second save leaves the row as the first detection wrote it, moderated_at
   included, and adds no second row for the key. *)
C25_FirstDetectionKept ==
    [][/\ \A r \in db : r \in db'
       /\ \A r \in db' \ db :
            ~\E old \in db : old.forum_id = r.forum_id /\ old.posting_id = r.posting_id]_vars

\* within one run a posting was saved, came back in a later fetch, and its
\* second removal was saved again while the table held the row of the first
C25_Witness ==
    /\ cycle >= 4
    /\ pc = "fetch"
    /\ iter.fetched
    /\ \E e \in iter.saved : \E r \in db :
        /\ r.forum_id = iter.forum_id
        /\ r.posting_id = e.pid
        /\ r.moderated_at <= now - 2

----------------------------------------------------------------------------
(* C26: no step of a run removes a key of posting_cache, and a step changes
   the entry of a key only if it is an iteration whose fetch succeeded and
   returned that id. *)
C26_CacheOnlyGrows ==
    [][/\ DOMAIN posting_cache \subseteq DOMAIN posting_cache'
       /\ \A pid \in DOMAIN posting_cache :
            posting_cache'[pid] # posting_cache[pid]
            => /\ pc = "fetch"
               /\ iter'.fetched
               /\ pid \in DOMAIN iter'.current]_vars

\* the part of C26 that is about the keys alone
C26_KeysOnly ==
    [][DOMAIN posting_cache \subseteq DOMAIN posting_cache']_vars

----------------------------------------------------------------------------
(* The case of C27, a removed id that is missing from posting_cache, needs
   an id of a stored snapshot that the cache does not hold.  Every fetch is
   merged into posting_cache before it is stored as a snapshot, and no
   statement removes a key of posting_cache, so no state has one: the branch
   that builds the "?" record is never taken. *)
SnapshotIdsAreCached ==
    \A f \in DOMAIN snapshots : DOMAIN snapshots[f] \subseteq DOMAIN posting_cache

\* no saved row carries the "?" record
NoPlaceholderRow ==
    \A r \in db : r.author # "?"

----------------------------------------------------------------------------
\* posting_cache at the time the removals of the iteration are classified:
\* the cache before, with the postings just fetched merged in
CacheAtDetection == DictUpdate(posting_cache, iter'.current)

(* C28: every row an iteration adds carries the parent fields of the cache
   at detection time: if the parent id of the posting is not empty and the
   cache holds it, parent_author, parent_title and parent_text are the
   author, title and text of the cached parent; if the parent id is empty
   or the cache does not hold it, the three fields are empty. *)
C28_ParentFieldsFromCache ==
    [][\A f \in ForumIds :
        IterationOf(f)
        => \A r \in db' \ db :
            LET par == r.parent_posting_id
            IN  IF par # "" /\ par \in DOMAIN CacheAtDetection
                THEN /\ r.parent_author = CacheAtDetection[par].author
                     /\ r.parent_title = CacheAtDetection[par].title
                     /\ r.parent_text = CacheAtDetection[par].text
                ELSE /\ r.parent_author = ""
                     /\ r.parent_title = ""
                     /\ r.parent_text = ""]_vars

\* a reply was just saved with the author and text of its cached parent,
\* and the table holds the row of a posting without parent
C28_Witness ==
    /\ pc = "fetch"
    /\ \E e \in iter.saved : \E r \in db :
        /\ r.forum_id = iter.forum_id
        /\ r.posting_id = e.pid
        /\ r.moderated_at = now
        /\ r.parent_posting_id # ""
        /\ r.parent_posting_id \in DOMAIN posting_cache
        /\ r.parent_author = posting_cache[r.parent_posting_id].author
        /\ r.parent_author # ""
        /\ r.parent_text # ""
    /\ \E r \in db : r.parent_posting_id = "" /\ r.parent_author = ""

----------------------------------------------------------------------------
RECURSIVE CountNodes(_)
\* the number of nodes of a tree
CountNodes(node) ==
    IF node.replies = <<>> THEN 1
    ELSE 1 + CountNodes(Head(node.replies))
           + (CountNodes([node EXCEPT !.replies = Tail(node.replies)]) - 1)

RECURSIVE ParentsFollowTree(_, _, _)
\* in the mapping m the node has the parent given, and every reply below it
\* has the node it hangs under
ParentsFollowTree(node, parent_id, m) ==
    /\ node.id \in DOMAIN m
    /\ m[node.id].id = node.id
    /\ m[node.id].parent_posting_id = parent_id
    /\ \A k \in 1..Len(node.replies) : ParentsFollowTree(node.replies[k], node.id, m)

\* the top-level nodes of all pages
TopLevel(resp) ==
    UNION {{resp[i].edges[j] : j \in 1..Len(resp[i].edges)} : i \in 1..Len(resp)}

RECURSIVE SumOver(_)
\* the number of nodes of a set of trees
SumOver(nodes) ==
    IF nodes = {} THEN 0
    ELSE LET n == CHOOSE x \in nodes : TRUE
         IN  CountNodes(n) + SumOver(nodes \ {n})

(* C29: fetch_all_postings of a reply tree returns a mapping whose keys are
   exactly the ids of the nodes, at every depth and on every page, one key
   for each node; a top-level node has an empty parent_posting_id, and a
   reply has the id of the node it is nested under. *)
C29_FlattenKeepsTree ==
    pc = "flattened"
    => /\ iter.fetched
       /\ DOMAIN iter.current = FetchedIds(iter.resp)
       /\ Cardinality(DOMAIN iter.current) = SumOver(TopLevel(iter.resp))
       /\ \A node \in TopLevel(iter.resp) : ParentsFollowTree(node, "", iter.current)

\* a tree three levels deep was flattened: a reply to a reply to a
\* top-level posting, each with the parent above it
C29_Witness ==
    /\ pc = "flattened"
    /\ \E a \in TreeIds, b \in TreeIds, c \in TreeIds :
        /\ {a, b, c} = DOMAIN iter.current
        /\ iter.current[a].parent_posting_id = ""
        /\ iter.current[b].parent_posting_id = a
        /\ iter.current[c].parent_posting_id = b

----------------------------------------------------------------------------
(* C30: when a posting disappears from a forum, it is classified and its
   row is filled from the record last fetched from that forum, the one the
   stored snapshot of the forum holds: it is saved exactly if that record
   is not self-deleted, and the row has the author, text and parent of that
   record, whatever another forum returned under the same posting id. *)
C30_OwnForumRecordUsed ==
    [][\A f \in ForumIds :
        (IterationOf(f) /\ iter'.fetched /\ f \in DOMAIN snapshots)
        => \A pid \in DOMAIN snapshots[f] \ DOMAIN iter'.current :
            LET last == snapshots[f][pid]
            IN  /\ (\E e \in iter'.saved : e.pid = pid) <=> ~last.self_deleted
                /\ \A r \in db' \ db :
                    r.posting_id = pid
                    => /\ r.author = last.author
                       /\ r.text = last.text
                       /\ r.parent_posting_id = last.parent_posting_id]_vars

----------------------------------------------------------------------------
\* forum f has a stored snapshot and its latest fetch raised
AwaitsRetry(f) == f \in failing /\ f \in DOMAIN snapshots

\* the step leaves the stored snapshot of f as it is
SnapshotKept(f) == f \in DOMAIN snapshots' /\ snapshots'[f] = snapshots[f]

\* the fetch of f that returns after one that raised is diffed against the
\* stored snapshot: every id of it that the fetch lacks and the cache does
\* not mark self-deleted is handed to save_moderated and has a row
RetryDetects(f) ==
    (IterationOf(f) /\ AwaitsRetry(f) /\ iter'.fetched)
    => \A pid \in DOMAIN snapshots[f] \ DOMAIN iter'.current :
        ~CachedSelfDeleted(pid)
        => /\ \E e \in iter'.saved : e.pid = pid
           /\ \E r \in db' : r.forum_id = f /\ r.posting_id = pid

\* a fetch of f that raises leaves its stored snapshot and marks f failing
FailureKeepsSnapshot(f) ==
    (IterationOf(f) /\ f \in DOMAIN snapshots /\ ~iter'.fetched)
    => (SnapshotKept(f) /\ f \in failing')

\* C31 as claimed: from a fetch of a forum that raises until its next fetch
\* that returns, the snapshot stored by the last fetch that returned stays
\* as it is, and the fetch that returns is diffed against it, so a posting
\* removed in between is detected.
C31_RemovedWhileFailingDetected ==
    [][\A f \in ForumIds :
        /\ FailureKeepsSnapshot(f)
        /\ (AwaitsRetry(f) /\ ~IterationOf(f)) => (SnapshotKept(f) /\ f \in failing')
        /\ RetryDetects(f)]_vars

\* C31 as amended: the same, unless a cleanup pass in between evicts the
\* forum because its last_activity, which no failed fetch refreshes, has
\* become older than max_inactive; the snapshot is then dropped.
C31_DetectedUnlessEvicted ==
    [][\A f \in ForumIds :
        /\ FailureKeepsSnapshot(f)
        /\ (AwaitsRetry(f) /\ ~IterationOf(f))
           => \/ SnapshotKept(f) /\ f \in failing'
              \/ pc = "cleanup" /\ TooOld(f) /\ f \notin DOMAIN snapshots'
        /\ RetryDetects(f)]_vars

\* the fetch of a forum returned after one that had raised, and a posting
\* of the snapshot stored before the failure was found removed and saved
C31_Witness ==
    /\ pc = "fetch"
    /\ iter.fetched
    /\ iter.retry
    /\ ~iter.first
    /\ \E e \in iter.saved : \E r \in db :
        /\ e.pid \in iter.removed
        /\ r.forum_id = iter.forum_id
        /\ r.posting_id = e.pid
        /\ r.moderated_at = now

----------------------------------------------------------------------------
\* the answers of get_forum_info when every article has a forum with
\* min_posts postings
EveryUrlResolves ==
    [u \in Urls |-> [error |-> FALSE, forum_id |-> ForumOf(u), count |-> min_posts]]

\* the step onboards forum f
Onboarded(f) == f \notin ForumSet(forums) /\ f \in ForumSet(forums')

(* C32: discovery keeps no memory of evicted forums.  Before any discovery
   pass, every forum that is not monitored, evicted before or not, is
   onboarded by the pass for some answer of the feed, if get_forum_info
   resolves every article.
   A forum that a step onboards enters with last_activity None and without
   a snapshot, and the fetch of a forum without a snapshot adds no row,
   whatever was removed while the forum was not monitored. *)
C32_EvictedForumStartsAnew ==
    [][\A f \in ForumIds :
        /\ (BeforeDiscovery /\ f \notin ForumSet(forums))
           => \E rss \in RssAnswers :
                f \in ForumSet(discover_articles(forums, min_posts, rss, EveryUrlResolves))
        /\ Onboarded(f)
           => /\ ForumGet(forums', f).last_activity = NoneTs
              /\ f \notin DOMAIN snapshots'
        /\ (IterationOf(f) /\ f \notin DOMAIN snapshots)
           => /\ db' = db
              /\ iter'.saved = {}]_vars

\* a forum onboarded again had its first fetch: the cache still holds a
\* posting fetched from it before its eviction, the fetch did not return
\* that posting, and no row was saved for it
C32_Witness ==
    /\ pc = "fetch"
    /\ iter.fetched
    /\ iter.first
    /\ iter.saved = {}
    /\ Len(discoveries) >= 2
    /\ \E pid \in DOMAIN posting_cache \ DOMAIN iter.current :
        /\ posting_cache[pid].author = AuthorOf(iter.forum_id, pid)
        /\ ~posting_cache[pid].self_deleted
        /\ ~\E r \in db : r.forum_id = iter.forum_id /\ r.posting_id = pid

----------------------------------------------------------------------------
(* C33: in every state, every posting id of every stored snapshot is a key
   of posting_cache; so every id an iteration found removed had a cache
   entry when it was classified, and no row was built from the "?" record
   of a cache miss. *)
C33_SnapshotIdsCached ==
    /\ SnapshotIdsAreCached
    /\ (pc = "fetch" /\ iter.fetched) => iter.removed \subseteq DOMAIN posting_cache
    /\ NoPlaceholderRow

\* two forums have a snapshot with postings, and an iteration just found a
\* removed id, classified it from its cache entry and saved it
C33_Witness ==
    /\ pc = "fetch"
    /\ iter.fetched
    /\ \E e \in iter.saved :
        /\ e.pid \in iter.removed
        /\ e.pid \in DOMAIN posting_cache
        /\ e.pid \notin DOMAIN snapshots[iter.forum_id]
    /\ \E f \in DOMAIN snapshots, g \in DOMAIN snapshots :
        f # g /\ snapshots[f] # <<>> /\ snapshots[g] # <<>>

====
